---- MODULE Spec2Model ----
(***************************************************************************)
(* Model of checker_date_planka.py: a Telegram bot that reports the cards  *)
(* of a Planka instance whose due date falls in a requested window.        *)
(*                                                                         *)
(* Strings whose content the code inspects (button texts, comment texts)   *)
(* are sequences of one-character strings.  Dates are proleptic Gregorian  *)
(* ordinals (datetime.date.toordinal()); a UTC timestamp is a record       *)
(* [day, hour].  A Python exception is a value of the field "exc".         *)
(***************************************************************************)
EXTENDS Integers, Sequences, FiniteSets, TLC

\* ------------------------------------------------------------------ bounds
MaxCards == 2
MaxCardIds == 3
MaxItems == 2

\* --------------------------------------------------------- program constants
CommentLimit == 50
NameLimit == 30
WeekDays == 7
DateMin == 1

\* ------------------------------------------------------------ configuration
\* config.py is deployment data; these are the values of one deployment.
\* TIMEZONE is a fixed offset of whole hours east of UTC.
ALLOWED_USERS == {"alice"}
Users == {"alice", "mallory"}
BOARD_IDS == {10, 11}
TIMEZONE == 3

\* ------------------------------------------------------------- text helpers
\* A function on 1..n as the tuple of its values.
RECURSIVE TupleFrom(_, _, _)
TupleFrom(f, i, n) == IF i > n THEN <<>> ELSE <<f[i]>> \o TupleFrom(f, i + 1, n)

Rep(c, n) == TupleFrom([i \in 1..n |-> c], 1, n)

Take(s, n) == SubSeq(s, 1, IF Len(s) < n THEN Len(s) ELSE n)

Contains(sub, s) ==
    \E i \in 0..(Len(s) - Len(sub)) : SubSeq(s, i + 1, i + Len(sub)) = sub

IsSpace(c) == c \in {" ", "\n", "\t"}

RECURSIVE ReSubWs(_, _)
ReSubWs(s, prevSpace) ==
    IF s = <<>> THEN <<>>
    ELSE IF IsSpace(Head(s))
         THEN (IF prevSpace THEN <<>> ELSE <<" ">>) \o ReSubWs(Tail(s), TRUE)
         ELSE <<Head(s)>> \o ReSubWs(Tail(s), FALSE)

RECURSIVE LStrip(_)
LStrip(s) ==
    IF s # <<>> /\ IsSpace(Head(s)) THEN LStrip(Tail(s)) ELSE s

RECURSIVE RStrip(_)
RStrip(s) ==
    IF s # <<>> /\ IsSpace(s[Len(s)]) THEN RStrip(SubSeq(s, 1, Len(s) - 1)) ELSE s

Strip(s) == RStrip(LStrip(s))

clean_comment(text) == Strip(ReSubWs(text, FALSE))

\* ------------------------------------------------------- get_last_comment
\* createdAt strings of the action log and the instant fromisoformat gives
\* them after .replace("Z", ""); "garbage" does not parse (ValueError).
Missing == "<missing>"
IsoStamps == {"2025-06-01T10:00:00.000Z", "2025-06-02T10:00:00.000Z", "2025-06-03T10:00:00.000Z"}
fromisoformat(s) ==
    CASE s = "2025-06-01T10:00:00.000Z" -> [t |-> 1, ok |-> TRUE]
      [] s = "2025-06-02T10:00:00.000Z" -> [t |-> 2, ok |-> TRUE]
      [] s = "2025-06-03T10:00:00.000Z" -> [t |-> 3, ok |-> TRUE]
      [] OTHER -> [t |-> 0, ok |-> FALSE]

Returned(v) == [exc |-> "none", val |-> v]
Raised(e) == [exc |-> e, val |-> <<>>]

\* The list comprehension of lines 54-60, item by item in response order:
\* the first item that raises ends it.
RECURSIVE CommentList(_)
CommentList(items) ==
    IF items = <<>> THEN Returned(<<>>)
    ELSE LET c == Head(items)
             rest == CommentList(Tail(items))
         IN IF c.type = Missing THEN Raised("KeyError")
            ELSE IF c.type # "commentCard" THEN rest
            ELSE IF ~c.hasData \/ ~c.hasText THEN Raised("KeyError")
            ELSE IF c.createdAt = Missing THEN Raised("KeyError")
            ELSE IF ~fromisoformat(c.createdAt).ok THEN Raised("ValueError")
            ELSE IF rest.exc # "none" THEN rest
            ELSE Returned(<<[text |-> clean_comment(c.text), createdAt |-> fromisoformat(c.createdAt).t]>> \o rest.val)

\* list.sort(key=createdAt, reverse=True): stable, equal keys keep their order.
RECURSIVE InsertDesc(_, _)
InsertDesc(x, sorted) ==
    IF sorted = <<>> THEN <<x>>
    ELSE IF Head(sorted).createdAt >= x.createdAt
         THEN <<Head(sorted)>> \o InsertDesc(x, Tail(sorted))
         ELSE <<x>> \o sorted

\* A variant of SortDesc that leaves the comments in response order.
Unsorted(comments) == comments

RECURSIVE SortDesc(_)
SortDesc(comments) ==
    IF comments = <<>> THEN <<>>
    ELSE InsertDesc(comments[Len(comments)], SortDesc(SubSeq(comments, 1, Len(comments) - 1)))

\* The except clauses of lines 66-69.
CommentCaught(e) == e \in {"RequestException", "ValueError"}

\* response.kind: "transport" (requests.get raises RequestException), "notjson"
\* (.json() raises JSONDecodeError, a ValueError), "json" (a decoded body).
get_last_comment(response) ==
    IF response.kind = "transport" THEN Returned(<<>>)
    ELSE IF response.kind = "notjson" THEN Returned(<<>>)
    ELSE IF ~response.hasItems THEN Returned(<<>>)
    ELSE LET comments == CommentList(response.items)
         IN IF comments.exc # "none"
            THEN (IF CommentCaught(comments.exc) THEN Returned(<<>>) ELSE Raised(comments.exc))
            ELSE IF comments.val # <<>>
                 THEN Returned(Take(SortDesc(comments.val)[1].text, CommentLimit))
                 ELSE Returned(<<>>)

\* ------------------------------------------------------------------- dates
IsLeap(y) == (y % 4 = 0 /\ y % 100 # 0) \/ y % 400 = 0

DaysInMonth(y, m) ==
    IF m = 2 THEN (IF IsLeap(y) THEN 29 ELSE 28)
    ELSE IF m \in {4, 6, 9, 11} THEN 30 ELSE 31

RECURSIVE DaysBeforeMonth(_, _)
DaysBeforeMonth(y, m) ==
    IF m = 1 THEN 0 ELSE DaysBeforeMonth(y, m - 1) + DaysInMonth(y, m - 1)

\* datetime.date(y, m, d).toordinal()
ToOrdinal(y, m, d) ==
    LET p == y - 1
    IN p * 365 + (p \div 4) - (p \div 100) + (p \div 400) + DaysBeforeMonth(y, m) + d

Digits == {"0", "1", "2", "3", "4", "5", "6", "7", "8", "9"}
Digit(c) ==
    CASE c = "0" -> 0 [] c = "1" -> 1 [] c = "2" -> 2 [] c = "3" -> 3 [] c = "4" -> 4
      [] c = "5" -> 5 [] c = "6" -> 6 [] c = "7" -> 7 [] c = "8" -> 8 [] c = "9" -> 9

\* F.text.regexp(r"\d{2}-\d{2}-\d{4}"): a match at the start of the text.
DateRegexp(t) ==
    /\ Len(t) >= 10
    /\ \A i \in {1, 2, 4, 5, 7, 8, 9, 10} : t[i] \in Digits
    /\ t[3] = "-" /\ t[6] = "-"

\* datetime.strptime(text, "%d-%m-%Y").date() of a text DateRegexp accepts.
strptime(t) ==
    LET d == 10 * Digit(t[1]) + Digit(t[2])
        m == 10 * Digit(t[4]) + Digit(t[5])
        y == 1000 * Digit(t[7]) + 100 * Digit(t[8]) + 10 * Digit(t[9]) + Digit(t[10])
    IN IF Len(t) = 10 /\ y >= 1 /\ m \in 1..12 /\ d >= 1 /\ d <= DaysInMonth(y, m)
       THEN [exc |-> "none", val |-> ToOrdinal(y, m, d)]
       ELSE [exc |-> "ValueError", val |-> 0]

\* datetime.datetime.now(TIMEZONE).date() at the time of the model's run.
Today == ToOrdinal(2025, 6, 10)

\* fromisoformat(dueDate).replace(tzinfo=utc).astimezone(TIMEZONE): a UTC
\* [day, hour] becomes the local [day, hour].
astimezone(utc) ==
    LET h == utc.day * 24 + utc.hour + TIMEZONE
    IN [day |-> h \div 24, hour |-> h % 24]

\* ---------------------------------------------------------------- messages
Cal == "[calendar]"
BtnToday == <<Cal, " ", "T", "a", "s", "k", "s", " ", "f", "o", "r", " ", "t", "o", "d", "a", "y">>
BtnTomorrow == <<Cal, " ", "T", "o", "m", "o", "r", "r", "o", "w", "'", "s", " ", "t", "a", "s", "k", "s">>
BtnWeek == <<Cal, " ", "T", "a", "s", "k", "s", " ", "f", "o", "r", " ", "t", "h", "e", " ", "w", "e", "e", "k">>
BtnDate == <<Cal, " ", "D", "a", "t", "e", " ", "t", "a", "s", "k", "s">>
CmdStart == <<"/", "s", "t", "a", "r", "t">>
TxtDate0 == <<"1", "0", "-", "0", "6", "-", "2", "0", "2", "5">>
TxtDate1 == <<"1", "1", "-", "0", "6", "-", "2", "0", "2", "5">>
TxtBadDate == <<"3", "1", "-", "0", "2", "-", "2", "0", "2", "5">>
TxtLongDate == <<"1", "0", "-", "0", "6", "-", "2", "0", "2", "5", "5">>
TxtOther == <<"h", "i">>

Texts == {CmdStart, BtnToday, BtnTomorrow, BtnWeek, BtnDate,
          TxtDate0, TxtDate1, TxtBadDate, TxtLongDate, TxtOther}

\* The filters of the four handlers, tried in registration order.
FilterStart(t) == Len(t) >= 6 /\ SubSeq(t, 1, 6) = CmdStart /\ (Len(t) = 6 \/ t[7] = " ")
FilterSendTasks(t) == t \in {BtnToday, BtnTomorrow, BtnWeek}
FilterAskDate(t) == t = BtnDate
FilterTasksByDate(t) == DateRegexp(t)

Handler(t) ==
    IF FilterStart(t) THEN "start"
    ELSE IF FilterSendTasks(t) THEN "send_tasks"
    ELSE IF FilterAskDate(t) THEN "ask_date"
    ELSE IF FilterTasksByDate(t) THEN "tasks_by_date"
    ELSE "unhandled"

\* Lines 152-161 of send_tasks: the window of a button.
Window(t, today) ==
    IF Contains(<<"t", "o", "d", "a", "y">>, t)
    THEN [start_date |-> DateMin, end_date |-> today]
    ELSE IF Contains(<<"t", "o", "m", "o", "r", "r", "o", "w">>, t)
    THEN [start_date |-> today + 1, end_date |-> today + 1]
    ELSE [start_date |-> DateMin, end_date |-> today + WeekDays]

\* ------------------------------------------------- responses of the Planka API
SeqsUpTo(S, n) == UNION {{TupleFrom(f, 1, k) : f \in [1..k -> S]} : k \in 0..n}

Min(a, b) == IF a < b THEN a ELSE b

\* GET /cards/{id}/actions: the items of an action log.
TextA == <<" ", "a", " ", " ", "b", "\n">>
TextLong == Rep("x", 49) \o <<" ", "\t", "y", "z", "\n">>
TextC == <<"c">>
TextBlank == <<" ", "\n">>
CommentTexts == {TextA, TextLong, TextC, TextBlank}

Item(type, hasData, hasText, text, createdAt) ==
    [text |-> text, type |-> type, hasData |-> hasData, hasText |-> hasText, createdAt |-> createdAt]

ActionItems ==
    {Item("commentCard", TRUE, TRUE, t, c) : t \in CommentTexts, c \in IsoStamps}
    \cup {Item("commentCard", TRUE, TRUE, TextC, "garbage"),
          Item("commentCard", TRUE, TRUE, TextC, Missing),
          Item("commentCard", TRUE, FALSE, <<>>, "2025-06-03T10:00:00.000Z"),
          Item("commentCard", FALSE, FALSE, <<>>, "2025-06-03T10:00:00.000Z"),
          Item("moveCard", TRUE, FALSE, <<>>, "2025-06-03T10:00:00.000Z"),
          Item(Missing, TRUE, TRUE, TextC, "2025-06-03T10:00:00.000Z")}

ActionsResponse(kind, hasItems, items) ==
    [items |-> items, kind |-> kind, hasItems |-> hasItems]

ActionsResponses ==
    {ActionsResponse("transport", FALSE, <<>>), ActionsResponse("notjson", FALSE, <<>>),
     ActionsResponse("json", FALSE, <<>>)}
    \cup {ActionsResponse("json", TRUE, s) : s \in SeqsUpTo(ActionItems, MaxItems)}

OneComment == ActionsResponse("json", TRUE,
                  <<Item("commentCard", TRUE, TRUE, TextA, "2025-06-01T10:00:00.000Z")>>)
NoType == ActionsResponse("json", TRUE,
                  <<Item(Missing, TRUE, TRUE, TextC, "2025-06-03T10:00:00.000Z")>>)

\* GET /projects.  A project's id is its place in the instance.
ProjectItem(name, hasId) == [name |-> name, hasId |-> hasId]
ProjectsResponse(kind, hasItems, items) ==
    [items |-> items, kind |-> kind, hasItems |-> hasItems]

ProjectsBad ==
    {ProjectsResponse("transport", FALSE, <<>>), ProjectsResponse("json", FALSE, <<>>)}
ProjectsGood(lists) ==
    {ProjectsResponse("json", TRUE,
         TupleFrom([i \in 1..Len(s) |-> ProjectItem(s[i], TRUE)], 1, Len(s))) : s \in lists}
ProjectsOdd ==
    {ProjectsResponse("json", TRUE, <<ProjectItem(Missing, TRUE)>>),
     ProjectsResponse("json", TRUE, <<ProjectItem("P", TRUE), ProjectItem("Q", FALSE)>>)}

\* GET /projects/{id}
BoardItem(name, hasId, id) == [name |-> name, hasId |-> hasId, id |-> id]
ProjectResponse(kind, hasIncluded, hasBoards, boards) ==
    [kind |-> kind, hasIncluded |-> hasIncluded, hasBoards |-> hasBoards, boards |-> boards]

ProjectBad ==
    {ProjectResponse("transport", FALSE, FALSE, <<>>), ProjectResponse("json", FALSE, FALSE, <<>>),
     ProjectResponse("json", TRUE, FALSE, <<>>),
     ProjectResponse("json", TRUE, TRUE, <<BoardItem(Missing, TRUE, 10)>>),
     ProjectResponse("json", TRUE, TRUE, <<BoardItem("A", TRUE, 10), BoardItem("B", FALSE, 0)>>)}
ProjectGood(lists) ==
    {ProjectResponse("json", TRUE, TRUE, s) : s \in lists}

A10 == BoardItem("A", TRUE, 10)
A11 == BoardItem("A", TRUE, 11)
B11 == BoardItem("B", TRUE, 11)
A20 == BoardItem("A", TRUE, 20)
BoardLists ==
    {<<>>, <<A10>>, <<A20>>, <<A10, B11>>, <<A10, A11>>, <<A20, B11>>, <<B11, A20>>}

\* GET /boards/{id}
ListItem(hasId, id) == [hasId |-> hasId, id |-> id]
ListChoices == {<<ListItem(TRUE, 1)>>, <<ListItem(TRUE, 1), ListItem(TRUE, 2)>>}

Due(day, hour) == [day |-> day, hour |-> hour, has |-> TRUE]
NoDue == [day |-> 0, hour |-> 0, has |-> FALSE]
ShortTitle == <<"F", "i", "x">>
LongTitle == Rep("n", 35)

Card(hasListId, listId, dueDate, isDueDateCompleted, name) ==
    [name |-> name, hasListId |-> hasListId, listId |-> listId, dueDate |-> dueDate, isDueDateCompleted |-> isDueDateCompleted]

\* isDueDateCompleted is "true", "false" or Missing (the key is absent).
CardOk == Card(TRUE, 1, Due(Today - 1, 21), "false", ShortTitle)
CardDone == Card(TRUE, 1, Due(Today - 1, 21), "true", ShortTitle)
CardShapes ==
    {CardOk, CardDone,
     Card(TRUE, 1, Due(Today, 20), Missing, LongTitle),
     Card(TRUE, 1, Due(Today, 21), "false", ShortTitle),
     Card(TRUE, 1, NoDue, "false", ShortTitle),
     Card(TRUE, 2, Due(Today, 20), "false", ShortTitle),
     Card(FALSE, 0, Due(Today - 1, 21), "false", ShortTitle)}

BoardResponse(kind, hasIncluded, hasLists, lists, hasCards, cards) ==
    [kind |-> kind, lists |-> lists, hasIncluded |-> hasIncluded, hasLists |-> hasLists, hasCards |-> hasCards, cards |-> cards]

BoardBad ==
    {BoardResponse("transport", FALSE, FALSE, <<>>, FALSE, <<>>),
     BoardResponse("json", FALSE, FALSE, <<>>, FALSE, <<>>),
     BoardResponse("json", TRUE, FALSE, <<>>, TRUE, <<>>),
     BoardResponse("json", TRUE, TRUE, <<ListItem(FALSE, 0)>>, TRUE, <<>>),
     BoardResponse("json", TRUE, TRUE, <<ListItem(TRUE, 1)>>, FALSE, <<>>)}
BoardGood(lists, shapes, free) ==
    {BoardResponse("json", TRUE, TRUE, l, TRUE, c) :
        l \in lists, c \in SeqsUpTo(shapes, Min(MaxCards, free))}

\* --------------------------------------------------------------- the Report
\* result is a dict of dicts of lists; Python dicts keep insertion order, so
\* a dict is the sequence of its [name, value] items in insertion order.
HasKey(d, k) == \E i \in 1..Len(d) : d[i].name = k
KeyIndex(d, k) == CHOOSE i \in 1..Len(d) : d[i].name = k

\* A variant of AddEntry that puts the entry first in the board's list.
AddEntryFirst(res, pname, bname, entry) ==
    LET r1 == IF HasKey(res, pname) THEN res
              ELSE Append(res, [name |-> pname, boards |-> <<>>])
        i == KeyIndex(r1, pname)
        b1 == IF HasKey(r1[i].boards, bname) THEN r1[i].boards
              ELSE Append(r1[i].boards, [name |-> bname, cards |-> <<>>])
        j == KeyIndex(b1, bname)
    IN [r1 EXCEPT ![i].boards = [b1 EXCEPT ![j].cards = <<entry>> \o @]]

\* Lines 117-124.
AddEntry(res, pname, bname, entry) ==
    LET r1 == IF HasKey(res, pname) THEN res
              ELSE Append(res, [name |-> pname, boards |-> <<>>])
        i == KeyIndex(r1, pname)
        b1 == IF HasKey(r1[i].boards, bname) THEN r1[i].boards
              ELSE Append(r1[i].boards, [name |-> bname, cards |-> <<>>])
        j == KeyIndex(b1, bname)
    IN [r1 EXCEPT ![i].boards = [b1 EXCEPT ![j].cards = Append(@, entry)]]

\* Line 98.
ValidListIds(lists) == {lists[i].id : i \in 1..Len(lists)}

\* A variant of FilteredBoards that keeps every board.
UnfilteredBoards(bs) == bs

\* Line 88.
FilteredBoards(bs) == SelectSeq(bs, LAMBDA b : b.id \in BOARD_IDS)

\* Line 107: card.get("isDueDateCompleted", False).
Completed(card) == card.isDueDateCompleted = "true"

\* A variant of DueIncluded whose window excludes end_date.
DueIncludedBeforeEnd(card, valid, start, end) ==
    /\ card.hasListId /\ card.listId \in valid
    /\ card.dueDate.has /\ card.isDueDateCompleted # "true"
    /\ start <= astimezone(card.dueDate).day
    /\ astimezone(card.dueDate).day < end

\* Lines 103-113: whether the loop body reaches the append for this card.
DueIncluded(card, valid, start, end) ==
    /\ card.hasListId /\ card.listId \in valid
    /\ card.dueDate.has /\ ~Completed(card)
    /\ start <= astimezone(card.dueDate).day
    /\ astimezone(card.dueDate).day <= end

\* Line 114.
ShortName(name) ==
    IF Len(name) > NameLimit THEN SubSeq(name, 1, NameLimit) \o <<".", ".", ".">> ELSE name

\* ------------------------------------------------------------ the reply text
Line(tag, label, body) == [tag |-> tag, label |-> label, body |-> body]

RECURSIVE RenderCards(_)
RenderCards(cs) ==
    IF cs = <<>> THEN <<>>
    ELSE <<Line("card", "", Head(cs).name)>>
         \o (IF Head(cs).comment # <<>> THEN <<Line("comment", "", Head(cs).comment)>> ELSE <<>>)
         \o RenderCards(Tail(cs))

RECURSIVE RenderBoards(_)
RenderBoards(bs) ==
    IF bs = <<>> THEN <<>>
    ELSE <<Line("board", Head(bs).name, <<>>)>> \o RenderCards(Head(bs).cards)
         \o <<Line("sep", "", <<>>)>> \o RenderBoards(Tail(bs))

RECURSIVE RenderProjects(_)
RenderProjects(ps) ==
    IF ps = <<>> THEN <<>>
    ELSE <<Line("project", Head(ps).name, <<>>)>> \o RenderBoards(Head(ps).boards)
         \o RenderProjects(Tail(ps))

Reply(kind, lines) == [kind |-> kind, lines |-> lines]

\* A variant of ReplyFor without the test for an empty Report.
ReplyAlwaysReport(tasks) == Reply("report", RenderProjects(tasks))

\* Lines 166-180 and 197-211: what the handler replies for the tasks returned.
ReplyFor(tasks) ==
    IF tasks = <<>> THEN Reply("no_tasks", <<>>)
    ELSE IF RenderProjects(tasks) = <<>> THEN Reply("no_tasks", <<>>)
    ELSE Reply("report", RenderProjects(tasks))

\* -------------------------------------------------------------------- state
VARIABLES
    pc,             \* where the bot is: "idle", or the next request of get_due_cards
    user, text,     \* message.from_user.id and message.text of the message handled
    token,          \* what get_token returned: "tok", "None", or "unset"
    start_date, end_date,
    projects,       \* the projects the loop of line 80 has still to visit
    project_name,
    boards,         \* the filtered boards the loop of line 90 has still to visit
    board,          \* [name, id] of the board being scanned
    valid_list_ids,
    cards,          \* the cards the loop of line 102 has still to visit
    result,         \* the Report being built, then returned
    reply,          \* what message.reply sent for this message
    error,          \* the exception that left the handler, or "none"
    requests,       \* the HTTP requests issued for this message
    nextId, pno,    \* cards and projects met so far for this message
    pnames, bnames, \* names of the projects met, of the boards met in this project
    name_clash,     \* two projects, or two boards of one project, had one name
    skipped_boards, \* ids of the boards the project views listed outside BOARD_IDS
    comment_call    \* the last call of get_last_comment: [response, ret, made]

msgVars == <<user, text>>
callVars == <<token, start_date, end_date>>
loopVars == <<projects, project_name, boards, board, valid_list_ids, cards>>
logVars == <<requests, nextId, pno, pnames, bnames, name_clash, skipped_boards, comment_call>>
vars == <<pc, user, text, token, start_date, end_date, projects, project_name, boards,
          board, valid_list_ids, cards, result, reply, error, requests, nextId, pno,
          pnames, bnames, name_clash, skipped_boards, comment_call>>

NoBoard == [name |-> "", id |-> 0]
NoCall == [response |-> ActionsResponse("json", FALSE, <<>>), ret |-> Returned(<<>>), made |-> FALSE]
Request(kind, id) == [kind |-> kind, id |-> id]

ClearLoop ==
    /\ projects' = <<>> /\ project_name' = "" /\ boards' = <<>> /\ board' = NoBoard
    /\ valid_list_ids' = {} /\ cards' = <<>>

Init ==
    /\ pc = "idle" /\ user = "alice" /\ text = <<>>
    /\ token = "unset" /\ start_date = 0 /\ end_date = 0
    /\ projects = <<>> /\ project_name = "" /\ boards = <<>> /\ board = NoBoard
    /\ valid_list_ids = {} /\ cards = <<>>
    /\ result = <<>> /\ reply = Reply("none", <<>>) /\ error = "none"
    /\ requests = {} /\ nextId = 0 /\ pno = 0
    /\ pnames = {} /\ bnames = {} /\ name_clash = FALSE /\ skipped_boards = {}
    /\ comment_call = NoCall

\* A new message reaches a handler: nothing of the previous one is left.
Arrive(u, t) ==
    /\ pc = "idle"
    /\ user' = u /\ text' = t
    /\ nextId' = 0 /\ pno' = 0 /\ pnames' = {} /\ bnames' = {} /\ name_clash' = FALSE
    /\ skipped_boards' = {}
    /\ comment_call' = NoCall
    /\ result' = <<>>
    /\ ClearLoop

\* A handler that calls neither get_token nor get_due_cards replies and ends.
JustReply(r) ==
    /\ reply' = r /\ requests' = {} /\ error' = "none" /\ pc' = "idle"
    /\ token' = "unset" /\ start_date' = 0 /\ end_date' = 0

\* An exception leaves the handler: aiogram logs it, nothing is replied.
Raise(e) ==
    /\ pc' = "idle" /\ error' = e /\ result' = <<>>
    /\ ClearLoop
    /\ UNCHANGED <<msgVars, callVars, reply>>

\* Lines 143-147.
start(U, T) ==
    \E u \in U, t \in T :
        /\ Handler(t) = "start"
        /\ Arrive(u, t)
        /\ JustReply(IF u \notin ALLOWED_USERS THEN Reply("refusal", <<>>)
                     ELSE Reply("greeting", <<>>))

\* Lines 183-185.
ask_date(U, T) ==
    \E u \in U, t \in T :
        /\ Handler(t) = "ask_date"
        /\ Arrive(u, t)
        /\ JustReply(Reply("ask_date", <<>>))

\* A text no filter accepts: no handler runs.
unhandled(U, T) ==
    \E u \in U, t \in T :
        /\ Handler(t) = "unhandled"
        /\ Arrive(u, t)
        /\ JustReply(Reply("none", <<>>))

\* Lines 28-38: the outcomes of get_token.  A RequestException gives None; a
\* body without "item" raises KeyError, which get_token does not catch.
TokenOutcomes == {"tok", "None", "KeyError"}

\* The handler up to its call of get_due_cards (lines 163-164, 194-195).
CallDueCards(outcome, s, e) ==
    /\ requests' = {Request("token", 0)}
    /\ reply' = Reply("none", <<>>)
    /\ start_date' = s /\ end_date' = e
    /\ IF outcome = "KeyError"
       THEN /\ token' = "unset" /\ pc' = "idle" /\ error' = "KeyError"
       ELSE /\ token' = outcome /\ pc' = "projects" /\ error' = "none"

\* Lines 150-164.
send_tasks(U, T, O) ==
    \E u \in U, t \in T, outcome \in O :
        /\ Handler(t) = "send_tasks"
        /\ Arrive(u, t)
        /\ CallDueCards(outcome, Window(t, Today).start_date, Window(t, Today).end_date)

\* Lines 187-195.
tasks_by_date(U, T, O) ==
    \E u \in U, t \in T, outcome \in O :
        /\ Handler(t) = "tasks_by_date"
        /\ Arrive(u, t)
        /\ IF strptime(t).exc = "ValueError"
           THEN JustReply(Reply("bad_date", <<>>))
           ELSE CallDueCards(outcome, strptime(t).val, strptime(t).val)

\* Lines 76-78: GET /projects.  Without a valid bearer token Planka answers
\* 401 with an error body.
GetProjects(R) ==
    /\ pc = "projects"
    /\ \E resp \in (IF token = "None" THEN ProjectsBad ELSE R) :
        /\ requests' = requests \cup {Request("projects", 0)}
        /\ UNCHANGED <<nextId, pno, pnames, bnames, name_clash, skipped_boards, comment_call>>
        /\ IF resp.kind = "transport" THEN Raise("RequestException")
           ELSE IF ~resp.hasItems THEN Raise("KeyError")
           ELSE /\ projects' = resp.items /\ pc' = "project"
                /\ UNCHANGED <<msgVars, callVars, project_name, boards, board,
                               valid_list_ids, cards, result, reply, error>>

\* Lines 80-88: one project of the loop, up to its filtered boards.
ProjectStep(R) ==
    /\ pc = "project" /\ projects # <<>>
    /\ UNCHANGED <<nextId, comment_call>>
    /\ LET project == Head(projects)
       IN IF project.name = Missing \/ ~project.hasId
          THEN Raise("KeyError")
               /\ UNCHANGED <<requests, pno, pnames, bnames, name_clash, skipped_boards>>
          ELSE \E resp \in R :
                /\ requests' = requests \cup {Request("project", pno + 1)}
                /\ skipped_boards' = skipped_boards \cup
                      {resp.boards[i].id : i \in {k \in 1..Len(resp.boards) :
                          resp.boards[k].hasId /\ resp.boards[k].id \notin BOARD_IDS}}
                /\ pno' = pno + 1
                /\ pnames' = pnames \cup {project.name}
                /\ bnames' = {}
                /\ name_clash' = (name_clash \/ project.name \in pnames)
                /\ IF resp.kind = "transport" THEN Raise("RequestException")
                   ELSE IF ~resp.hasIncluded \/ ~resp.hasBoards
                           \/ (\E i \in 1..Len(resp.boards) : ~resp.boards[i].hasId)
                   THEN Raise("KeyError")
                   ELSE /\ project_name' = project.name
                        /\ projects' = Tail(projects)
                        /\ boards' = FilteredBoards(resp.boards)
                        /\ pc' = "board"
                        /\ UNCHANGED <<msgVars, callVars, board, valid_list_ids, cards,
                                       result, reply, error>>

\* Lines 90-100: one board of the loop, up to its cards.  A card's id is its
\* place among the cards the instance returns.
BoardStep(bad, lists, shapes) ==
    /\ pc = "board" /\ boards # <<>>
    /\ UNCHANGED <<pno, pnames, skipped_boards, comment_call>>
    /\ IF Head(boards).name = Missing
       THEN Raise("KeyError") /\ UNCHANGED <<requests, nextId, bnames, name_clash>>
       ELSE \E resp \in bad \cup BoardGood(lists, shapes, MaxCardIds - nextId) :
             /\ requests' = requests \cup {Request("board", Head(boards).id)}
             /\ bnames' = bnames \cup {Head(boards).name}
             /\ name_clash' = (name_clash \/ Head(boards).name \in bnames)
             /\ IF resp.kind = "transport"
                THEN Raise("RequestException") /\ UNCHANGED nextId
                ELSE IF \/ ~resp.hasIncluded \/ ~resp.hasLists
                        \/ (\E i \in 1..Len(resp.lists) : ~resp.lists[i].hasId)
                        \/ ~resp.hasCards
                THEN Raise("KeyError") /\ UNCHANGED nextId
                ELSE /\ board' = [name |-> Head(boards).name, id |-> Head(boards).id]
                     /\ boards' = Tail(boards)
                     /\ valid_list_ids' = ValidListIds(resp.lists)
                     /\ cards' = TupleFrom([i \in 1..Len(resp.cards) |->
                                    [id |-> nextId + i, card |-> resp.cards[i]]],
                                    1, Len(resp.cards))
                     /\ nextId' = nextId + Len(resp.cards)
                     /\ pc' = "card"
                     /\ UNCHANGED <<msgVars, callVars, projects, project_name,
                                    result, reply, error>>

\* Lines 102-124: one card of the loop.  An entry is the tuple of line 123;
\* card and board name the card and the board it came from.
CardStep(R) ==
    /\ pc = "card" /\ cards # <<>>
    /\ UNCHANGED <<nextId, pno, pnames, bnames, name_clash, skipped_boards>>
    /\ LET c == Head(cards)
       IN IF ~DueIncluded(c.card, valid_list_ids, start_date, end_date)
          THEN /\ cards' = Tail(cards)
               /\ UNCHANGED <<pc, msgVars, callVars, projects, project_name, boards, board,
                              valid_list_ids, result, reply, error, requests, comment_call>>
          ELSE \E resp \in R :
                LET ret == get_last_comment(resp)
                IN /\ requests' = requests \cup {Request("comment", c.id)}
                   /\ comment_call' = [response |-> resp, ret |-> ret, made |-> TRUE]
                   /\ IF ret.exc # "none" THEN Raise(ret.exc)
                      ELSE /\ result' = AddEntry(result, project_name, board.name,
                                            [name |-> ShortName(c.card.name), card |-> c.id, comment |-> ret.val, board |-> board.id, date |-> astimezone(c.card.dueDate)])
                           /\ cards' = Tail(cards)
                           /\ UNCHANGED <<pc, msgVars, callVars, projects, project_name,
                                          boards, board, valid_list_ids, reply, error>>

\* Line 102: the cards of the board are exhausted.
CardsDone ==
    /\ pc = "card" /\ cards = <<>>
    /\ pc' = "board"
    /\ UNCHANGED <<msgVars, callVars, loopVars, logVars, result, reply, error>>

\* Line 90: the boards of the project are exhausted.
BoardsDone ==
    /\ pc = "board" /\ boards = <<>>
    /\ pc' = "project"
    /\ UNCHANGED <<msgVars, callVars, loopVars, logVars, result, reply, error>>

\* Line 125 and the rest of the handler: get_due_cards returns, the handler replies.
Finish ==
    /\ pc = "project" /\ projects = <<>>
    /\ pc' = "idle"
    /\ reply' = ReplyFor(result)
    /\ ClearLoop
    /\ UNCHANGED <<msgVars, callVars, logVars, result, error>>

\* ----------------------------------------------------------- specifications
\* The bot: every handler, every user, a small Planka instance.
Next ==
    \/ start(Users, Texts)
    \/ send_tasks(Users, Texts, TokenOutcomes)
    \/ ask_date(Users, Texts)
    \/ tasks_by_date(Users, Texts, TokenOutcomes)
    \/ unhandled(Users, Texts)
    \/ GetProjects(ProjectsBad \cup ProjectsGood({<<>>, <<"P">>}) \cup ProjectsOdd)
    \/ ProjectStep(ProjectBad \cup ProjectGood({<<>>, <<A10>>}))
    \/ BoardStep(BoardBad, {<<ListItem(TRUE, 1)>>}, {CardOk, CardDone})
    \/ CardStep({ActionsResponse("transport", FALSE, <<>>), OneComment, NoType})
    \/ CardsDone \/ BoardsDone \/ Finish

Spec == Init /\ [][Next]_vars

\* The aggregation: one user, a date query, a larger Planka instance.
NextAgg ==
    \/ tasks_by_date({"alice"}, {TxtDate0, TxtDate1}, {"tok"})
    \/ GetProjects(ProjectsGood({<<>>, <<"P">>, <<"P", "Q">>, <<"P", "P">>}))
    \/ ProjectStep(ProjectGood(BoardLists))
    \/ BoardStep({}, ListChoices, CardShapes)
    \/ CardStep({OneComment})
    \/ CardsDone \/ BoardsDone \/ Finish

SpecAgg == Init /\ [][NextAgg]_vars

\* get_last_comment alone, on every action log of the bounded set.
InitComment ==
    /\ pc = "comment" /\ user = "alice" /\ text = <<>>
    /\ token = "tok" /\ start_date = 0 /\ end_date = 0
    /\ projects = <<>> /\ project_name = "" /\ boards = <<>> /\ board = NoBoard
    /\ valid_list_ids = {} /\ cards = <<>>
    /\ result = <<>> /\ reply = Reply("none", <<>>) /\ error = "none"
    /\ requests = {} /\ nextId = 0 /\ pno = 0
    /\ pnames = {} /\ bnames = {} /\ name_clash = FALSE /\ skipped_boards = {}
    /\ \E r \in ActionsResponses :
          comment_call = [response |-> r, ret |-> Returned(<<>>), made |-> FALSE]

\* Lines 45-69: the call returns or raises.
CallGetLastComment ==
    /\ pc = "comment"
    /\ pc' = "returned"
    /\ comment_call' = [comment_call EXCEPT !.ret = get_last_comment(comment_call.response),
                                            !.made = TRUE]
    /\ UNCHANGED <<msgVars, callVars, loopVars, result, reply, error, requests, nextId, pno,
                   pnames, bnames, name_clash, skipped_boards>>

NextComment == CallGetLastComment

SpecComment == InitComment /\ [][NextComment]_vars

\* =================================================================== claims
\* The entries of a Report in its iteration order: project by project, board
\* by board, entry by entry.
RECURSIVE FlatBoards(_)
FlatBoards(bs) == IF bs = <<>> THEN <<>> ELSE Head(bs).cards \o FlatBoards(Tail(bs))

RECURSIVE Flat(_)
Flat(res) == IF res = <<>> THEN <<>> ELSE FlatBoards(Head(res).boards) \o Flat(Tail(res))

Handled == Handler(text) \in {"start", "send_tasks", "ask_date", "tasks_by_date"}

\* C1: a message handled for a user outside ALLOWED_USERS is answered with the
\* refusal only, and no request (token, projects, boards, cards) is issued for it.
C1_UnauthorizedRefused ==
    (user \notin ALLOWED_USERS /\ Handled) =>
        (requests = {} /\ reply.kind = "refusal")

\* C2: when get_token returned None the handler aborts: get_due_cards is not
\* entered, nothing but the token request was issued, and the user is sent a
\* generic error reply.
C2_NoTokenAborts ==
    token = "None" =>
        /\ pc = "idle"
        /\ \A r \in requests : r.kind = "token"
        /\ reply.kind = "error"

\* C5: each button makes send_tasks call get_due_cards with the window it
\* names: today: date.min..today; tomorrow: today+1..today+1; week: up to today+7.
C5_ButtonWindows ==
    (Handler(text) = "send_tasks" /\ token \in {"tok", "None"}) =>
        /\ text = BtnToday => (start_date = DateMin /\ end_date = Today)
        /\ text = BtnTomorrow => (start_date = Today + 1 /\ end_date = Today + 1)
        /\ text = BtnWeek => end_date = Today + WeekDays

\* C6: get_last_comment never raises: whatever the actions request gives, the
\* call returns a string.
C6_CommentNeverRaises ==
    comment_call.made => comment_call.ret.exc = "none"

\* C7: when a response of the project/board/card traversal lacks a key, the
\* handler that called get_due_cards replies with a generic error message.
C7_MalformedReplied ==
    (pc = "idle" /\ error = "KeyError" /\ token = "tok" /\ comment_call.ret.exc = "none") =>
        reply.kind = "error"

\* The calendar date of a UTC due date in the display timezone.
LocalDay(d) == (24 * d.day + d.hour + TIMEZONE) \div 24

DueRelevant(card) ==
    /\ card.hasListId /\ card.listId \in valid_list_ids
    /\ card.dueDate.has
    /\ card.isDueDateCompleted # "true"
    /\ start_date <= LocalDay(card.dueDate) /\ LocalDay(card.dueDate) <= end_date

EntriesFor(res, id) == {i \in 1..Len(Flat(res)) : Flat(res)[i].card = id}

\* C3: each card of a scanned board adds exactly one entry to the Report iff
\* its listId is one of the board's lists, it has a dueDate, it is not marked
\* completed and its local due date lies in [start_date, end_date]; any other
\* card adds none, and nothing but a card of a scanned board adds an entry.
C3_DueRelevantIff ==
    [][IF pc = "card" /\ cards # <<>>
       THEN /\ cards' = Tail(cards)
            /\ IF DueRelevant(Head(cards).card)
               THEN /\ Len(Flat(result')) = Len(Flat(result)) + 1
                    /\ Cardinality(EntriesFor(result', Head(cards).id)) = 1
                    /\ \A i \in EntriesFor(result', Head(cards).id) :
                          Flat(result')[i].date.day = LocalDay(Head(cards).card.dueDate)
               ELSE result' = result
       ELSE result' = result \/ result' = <<>>]_vars

\* C3 witness: a board's cards are all visited, some were included and some skipped.
C3_Witness ==
    /\ pc = "card" /\ cards = <<>>
    /\ Len(Flat(result)) >= 1 /\ Len(Flat(result)) < nextId
    /\ \E i \in 1..Len(Flat(result)) : Flat(result)[i].date.day = end_date

\* C4: a board outside BOARD_IDS listed by a project view is never fetched,
\* contributes no entry, and no comment is fetched but for an included card of
\* an allow-listed board.
C4_BoardFilter ==
    /\ \A r \in requests : r.kind = "board" => (r.id \in BOARD_IDS /\ r.id \notin skipped_boards)
    /\ \A i \in 1..Len(Flat(result)) : Flat(result)[i].board \in BOARD_IDS \ skipped_boards
    /\ \A r \in requests : r.kind = "comment" =>
          \E i \in 1..Len(Flat(result)) :
              Flat(result)[i].card = r.id /\ Flat(result)[i].board \in BOARD_IDS
    /\ pc = "card" => board.id \in BOARD_IDS

\* C4 witness: a board outside BOARD_IDS was listed, and the Report has entries.
C4_Witness ==
    /\ 20 \in skipped_boards
    /\ pc = "idle" /\ reply.kind = "report"

WellFormed(items) ==
    \A i \in 1..Len(items) :
        /\ items[i].type # Missing
        /\ items[i].type = "commentCard" =>
              (items[i].hasData /\ items[i].hasText /\ items[i].createdAt \in IsoStamps)

\* The words of a text, and the text with its words joined by one space.
RECURSIVE Words(_, _)
Words(s, w) ==
    IF s = <<>> THEN (IF w = <<>> THEN <<>> ELSE <<w>>)
    ELSE IF Head(s) \in {" ", "\n", "\t"}
         THEN (IF w = <<>> THEN <<>> ELSE <<w>>) \o Words(Tail(s), <<>>)
         ELSE Words(Tail(s), Append(w, Head(s)))

RECURSIVE Join(_)
Join(ws) ==
    IF ws = <<>> THEN <<>>
    ELSE IF Len(ws) = 1 THEN ws[1]
    ELSE ws[1] \o <<" ">> \o Join(Tail(ws))

Normalized(s) == Join(Words(s, <<>>))

\* C8: for a well-formed action log with a comment, get_last_comment returns
\* the normalized text, cut to 50 characters, of a comment with the greatest
\* createdAt, wherever it stands in the response.
C8_LatestComment ==
    LET items == comment_call.response.items
        isComment(i) == items[i].type = "commentCard"
    IN (/\ comment_call.made /\ comment_call.response.kind = "json"
        /\ comment_call.response.hasItems /\ WellFormed(items)
        /\ \E i \in 1..Len(items) : isComment(i))
       => /\ comment_call.ret.exc = "none"
          /\ \E i \in 1..Len(items) :
                /\ isComment(i)
                /\ \A j \in 1..Len(items) :
                      isComment(j) => fromisoformat(items[j].createdAt).t
                                        <= fromisoformat(items[i].createdAt).t
                /\ comment_call.ret.val =
                      SubSeq(Normalized(items[i].text), 1,
                             Min(CommentLimit, Len(Normalized(items[i].text))))

\* C8 witness: two comments, the later one second in the response and longer
\* than 50 characters.
C8_Witness ==
    /\ comment_call.made
    /\ comment_call.response.items =
          <<Item("commentCard", TRUE, TRUE, TextA, "2025-06-01T10:00:00.000Z"),
            Item("commentCard", TRUE, TRUE, TextLong, "2025-06-03T10:00:00.000Z")>>
    /\ Len(comment_call.ret.val) = CommentLimit

Increasing(es) == \A i, j \in 1..Len(es) : i < j => es[i].card < es[j].card

\* C9 as claimed: iterating the Report yields the included cards in the order
\* the traversal visited them, for every input.
C9_TraversalOrder == Increasing(Flat(result))

\* C9 amended: the iteration order is the traversal order whenever no two
\* projects, and no two allow-listed boards of one project, share a name; for
\* every input each board's list is in traversal order.
C9_OrderUnlessNameClash ==
    /\ ~name_clash => Increasing(Flat(result))
    /\ \A p \in 1..Len(result) : \A b \in 1..Len(result[p].boards) :
          Increasing(result[p].boards[b].cards)

\* C9 witness: three entries in two projects without a name clash, the first
\* entry due later and named later in the alphabet than the second.
C9_Witness ==
    /\ ~name_clash /\ Len(result) = 2 /\ Len(Flat(result)) = 3
    /\ Flat(result)[1].date.hour > Flat(result)[2].date.hour
    /\ Flat(result)[1].name[1] = "n" /\ Flat(result)[2].name[1] = "F"

NoEmptyContainer(res) ==
    \A p \in 1..Len(res) :
        /\ res[p].boards # <<>>
        /\ \A b \in 1..Len(res[p].boards) : res[p].boards[b].cards # <<>>

CardLines(lines) == {i \in 1..Len(lines) : lines[i].tag = "card"}

\* C10: the Report never holds an empty container, it is empty exactly when
\* no card was included, a reply for a non-empty Report has a card line for
\* every entry, and the "no tasks" reply is sent exactly when none was included.
C10_NoEmptyContainer ==
    /\ NoEmptyContainer(result)
    /\ result = <<>> <=> Flat(result) = <<>>
    /\ (pc = "idle" /\ reply.kind \in {"report", "no_tasks"}) =>
          /\ reply.kind = "no_tasks" <=> Flat(result) = <<>>
          /\ reply.kind = "report" =>
                (CardLines(reply.lines) # {}
                 /\ Cardinality(CardLines(reply.lines)) = Len(Flat(result)))
    /\ (pc = "idle" /\ error = "none" /\ Request("projects", 0) \in requests) =>
          reply.kind \in {"report", "no_tasks"}

\* C10 witness: a report was sent for a Report of two projects.
C10_Witness ==
    /\ pc = "idle" /\ reply.kind = "report" /\ Len(result) = 2

====
